---- MODULE Spec2Model ----
(***************************************************************************)
(* Model of mudrex_volume_fees: the paginated order-history fetcher, the   *)
(* record classifier, the timestamp normalizer and                         *)
(* VolumeFeesCalculator.calculate, as one sequential process.              *)
(*                                                                         *)
(* Units.  Times are minutes.  Notional volume is an exact integer (the    *)
(* product of the integer quantities and prices the model's numeric        *)
(* strings denote).  Fee rates are thousandths of a percent (0.05% = 50),  *)
(* so estimated_fees is in units of 1e-5 of the volume unit.               *)
(***************************************************************************)
EXTENDS Integers, Sequences, FiniteSets, TLC

VARIABLES
    client,         \* the History Source: order pages, fee feed
    config,         \* the calculator's fields: _alpha_tier, _count_only_api_sourced
    args,           \* the arguments of the calculate call
    pc,             \* position of the calculate call
    page,           \* fetch_raw_order_history: page
    out,            \* fetch_raw_order_history: out
    raw_orders,     \* calculate: raw_orders
    calls,          \* every request the call made to the History Source, in order
    result,         \* what the call returned
    error,          \* the exception the call ended with
    reports,        \* what each finished calculate call returned, in order
                    \* (NoResult for a call that raised)
    probe,          \* input of a pure function under check
    probe_out       \* its output

vars == <<client, config, args, pc, page, out, raw_orders, calls, result, error,
          reports, probe, probe_out>>

\* Python None, also what dict.get(key) gives for an absent key.
None == "<None>"

\* ------------------------------------------------------------------ bounds

\* Page requests one fetch may make in the model.
MaxPages == 4

\* How far below 0 and above 6 the requested tiers range.
TierSlack == 3

\* calculate calls made one after the other on one calculator.
MaxCalls == 2

\* How far below 0 and above 6 the tiers handed to the table lookup range.
LookupSlack == 50

\* ------------------------------------------------------- program constants

per_page == 100

\* IST = timezone(timedelta(hours=5, minutes=30)), in minutes.
IST == 330

SOURCE_KEYS == <<"source", "order_source", "origin">>

\* FEE_RATES, in thousandths of a percent, indexed by tier + 1.
FEE_RATES == <<50, 48, 45, 45, 40, 35, 30>>

\* ---------------------------------------------------------- python values

\* Truthiness of a string-or-None value: None and "" are falsy.
Truthy(v) == v # None /\ v # ""

\* a or b
PyOr(a, b) == IF Truthy(a) THEN a ELSE b

\* str.upper() on the strings of the model.
Upper(s) ==
    CASE s = "btcusdt" -> "BTCUSDT"
      [] s = "ethusdt" -> "ETHUSDT"
      [] s = "filled" -> "FILLED"
      [] s = "Partially_Filled" -> "PARTIALLY_FILLED"
      [] s = "open" -> "OPEN"
      [] s = "api" -> "API"
      [] s = "Api" -> "API"
      [] s = "true" -> "TRUE"
      [] s = "web" -> "WEB"
      [] s = "ios" -> "IOS"
      [] s = "android" -> "ANDROID"
      [] s = "manual" -> "MANUAL"
      [] s = "false" -> "FALSE"
      [] s = "bot" -> "BOT"
      [] OTHER -> s

\* str.strip() on the strings of the model.
Strip(s) ==
    CASE s = " ETHUSDT " -> "ETHUSDT"
      [] s = " btcusdt" -> "btcusdt"
      [] s = "  " -> ""
      [] OTHER -> s

\* float(s): the numeric strings of the model and the numbers they denote.
NumericStrings == {"0", "2", "3", "5", "-1"}

IsFloat(s) == s \in NumericStrings

FloatOf(s) ==
    CASE s = "0" -> 0
      [] s = "2" -> 2
      [] s = "3" -> 3
      [] s = "5" -> 5
      [] s = "-1" -> -1

\* ------------------------------------------------------------- timestamps

\* A raw timestamp value (created_at, since, until):
\*   kind "none"     None
\*   kind "empty"    ""
\*   kind "garbage"  a string that is neither numeric nor ISO-8601
\*   kind "iso"      an ISO-8601 string: wall time `local`, with UTC offset
\*                   `off` when aware
\*   kind "datetime" a datetime object, naive or aware
TsNone == [kind |-> "none", aware |-> FALSE, local |-> 0, off |-> 0]
TsEmpty == [kind |-> "empty", aware |-> FALSE, local |-> 0, off |-> 0]
TsGarbage == [kind |-> "garbage", aware |-> FALSE, local |-> 0, off |-> 0]
IsoNaive(t) == [kind |-> "iso", aware |-> FALSE, local |-> t, off |-> 0]
IsoAware(t, o) == [kind |-> "iso", aware |-> TRUE, local |-> t, off |-> o]
DtNaive(t) == [kind |-> "datetime", aware |-> FALSE, local |-> t, off |-> 0]
DtAware(t, o) == [kind |-> "datetime", aware |-> TRUE, local |-> t, off |-> o]

\* bool(value) for a raw timestamp value.
TsTruthy(v) == v.kind \notin {"none", "empty"}

\* An Optional[datetime]: None, or wall time `local` with tzinfo `off`.
NoDt == [none |-> TRUE, aware |-> FALSE, local |-> 0, off |-> 0]
Dt(aware, t, o) == [none |-> FALSE, aware |-> aware, local |-> t, off |-> o]

\* dt.replace(tzinfo=IST)
ReplaceTz(dt) == Dt(TRUE, dt.local, IST)

\* dt.astimezone(IST), dt aware
AsTimezone(dt) == Dt(TRUE, dt.local - dt.off + IST, IST)

norm_dt(dt) ==
    IF dt.none THEN NoDt
    ELSE IF ~dt.aware THEN ReplaceTz(dt)
    ELSE AsTimezone(dt)

parse_dt(value) ==
    CASE value.kind = "none" -> NoDt
      [] value.kind = "datetime" ->
            norm_dt(Dt(value.aware, value.local, value.off))
      [] value.kind = "iso" ->
            IF value.aware
            THEN AsTimezone(Dt(TRUE, value.local, value.off))
            ELSE ReplaceTz(Dt(FALSE, value.local, 0))
      [] OTHER -> NoDt

\* a < b for aware datetimes: by the instant, wall time minus offset.
DtLess(a, b) == (a.local - a.off) < (b.local - b.off)

\* ------------------------------------------------------ record classifier

RECURSIVE is_api_sourced_from(_, _)

\* _is_api_sourced returning the default for a value it does not recognise.
is_api_sourced_firstpresent(order, k) ==
    IF k > Len(SOURCE_KEYS) THEN TRUE
    ELSE LET v == order[SOURCE_KEYS[k]] IN
         IF v = None THEN is_api_sourced_from(order, k + 1)
         ELSE LET s == Upper(v) IN
              IF s \in {"API", "1", "TRUE"} THEN TRUE
              ELSE IF s \in {"WEB", "IOS", "ANDROID", "MANUAL", "0", "FALSE"}
                   THEN FALSE
              ELSE TRUE

\* The loop over SOURCE_KEYS, from the k-th key on.
is_api_sourced_from(order, k) ==
    IF k > Len(SOURCE_KEYS) THEN TRUE
    ELSE LET v == order[SOURCE_KEYS[k]] IN
         IF v = None THEN is_api_sourced_from(order, k + 1)
         ELSE LET s == Upper(v) IN
              IF s \in {"API", "1", "TRUE"} THEN TRUE
              ELSE IF s \in {"WEB", "IOS", "ANDROID", "MANUAL", "0", "FALSE"}
                   THEN FALSE
              ELSE is_api_sourced_from(order, k + 1)

is_api_sourced(order) == is_api_sourced_from(order, 1)

order_volume_contribution(order) ==
    LET filled == PyOr(PyOr(order.filled_quantity, order.filled_size), "0")
        price == PyOr(PyOr(order.price, order.order_price), "0")
    IN IF IsFloat(filled) /\ IsFloat(price)
       THEN FloatOf(filled) * FloatOf(price)
       ELSE 0

order_is_filled(order) ==
    Upper(PyOr(order.status, "")) \in {"FILLED", "PARTIALLY_FILLED"}

\* ----------------------------------------------------------- fee tier table

\* AlphaTier(tier) raises ValueError outside 0..6.
get_fee_rate(tier) ==
    IF tier \in 0..6
    THEN [raised |-> FALSE, rate |-> FEE_RATES[tier + 1]]
    ELSE [raised |-> TRUE, rate |-> 0]

\* ------------------------------------------------------- the History Source

\* A list entry that is not a dict (a string, a number, null).
IsDict(item) == item.pytype = "dict"

\* Python values a page request can answer with.
PyList(xs) == [pytype |-> "list", list |-> xs]
PyDict(ks, itemsv, datav) ==
    [pytype |-> "dict", keys |-> ks, items |-> itemsv, data |-> datav]
PyScalar == [pytype |-> "NoneType"]

\* d.get(k, default), d a dict with at most the keys "items" and "data".
DictGet(d, k, default) == IF k \in d.keys THEN d[k] ELSE default

\* A page is described by its envelope shape and its entries as runs
\* <<entry, count>>; Expand gives the list of entries.
RECURSIVE Expand(_)
Expand(runs) ==
    IF runs = <<>> THEN <<>>
    ELSE [i \in 1..Head(runs).n |-> Head(runs).entry] \o Expand(Tail(runs))

\* The value client.get answers with for a page description.
Response(desc) ==
    LET xs == PyList(Expand(desc.runs)) IN
    CASE desc.shape = "list" -> xs
      [] desc.shape = "items" -> PyDict({"items"}, xs, PyScalar)
      [] desc.shape = "data_list" -> PyDict({"data"}, PyScalar, xs)
      [] desc.shape = "data_items" ->
            PyDict({"data"}, PyScalar, PyDict({"items"}, xs, PyScalar))
      [] desc.shape = "data_data" ->
            PyDict({"data"}, PyScalar, PyDict({"data"}, PyScalar, xs))
      [] desc.shape = "items_nulldata" -> PyDict({"items", "data"}, xs, PyScalar)
      [] desc.shape = "data_scalaritems" ->
            PyDict({"data"}, PyScalar, PyDict({"items", "data"}, PyScalar, xs))
      [] desc.shape = "items_scalar" -> PyDict({"items"}, PyScalar, PyScalar)
      [] desc.shape = "data_scalar" -> PyDict({"data"}, PyScalar, PyScalar)
      [] desc.shape = "empty_dict" -> PyDict({}, PyScalar, PyScalar)
      [] OTHER -> PyScalar

\* The description of page p: the pages the source lists, then its tail
\* description for every later page number.
SourcePage(cl, p) == IF p <= Len(cl.pages) THEN cl.pages[p] ELSE cl.tail

\* client.get("/futures/orders/history", {"page": p, "per_page": per_page})
client_get(cl, p) ==
    LET desc == SourcePage(cl, p) IN
    IF desc.raises # None
    THEN [raised |-> TRUE, exc |-> desc.raises, resp |-> PyScalar]
    ELSE [raised |-> FALSE, exc |-> None, resp |-> Response(desc)]

\* ------------------------------------------------- paginated history fetcher

\* extract_items without the data.get("data", []) fallback of line 199.
extract_items_itemsonly(resp) ==
    LET data == IF resp.pytype = "dict" THEN DictGet(resp, "data", resp)
                ELSE resp
        items == IF data.pytype = "list" THEN data
                 ELSE IF data.pytype = "dict"
                      THEN DictGet(data, "items", PyList(<<>>))
                      ELSE PyList(<<>>)
    IN IF items.pytype = "list" THEN items.list ELSE <<>>

\* Lines 190-204: the list of entries of a response, [] for any other shape.
extract_items(resp) ==
    LET data == IF resp.pytype = "dict" THEN DictGet(resp, "data", resp)
                ELSE resp
        items == IF data.pytype = "list" THEN data
                 ELSE IF data.pytype = "dict"
                      THEN DictGet(data, "items",
                                   DictGet(data, "data", PyList(<<>>)))
                      ELSE PyList(<<>>)
    IN IF items.pytype = "list" THEN items.list ELSE <<>>

\* fetch_iteration returning the whole of out when the cap is reached.
fetch_iteration_noslice(got, o, p, limit) ==
    IF got.raised
    THEN [status |-> "raise", exc |-> got.exc, out |-> o, ret |-> <<>>, page |-> p]
    ELSE
    LET items == extract_items(got.resp)
        o2 == o \o SelectSeq(items, IsDict)
    IN IF Len(items) = 0
       THEN [status |-> "return", exc |-> None, out |-> o, ret |-> o, page |-> p]
       ELSE IF limit # 0 /\ Len(o2) >= limit
       THEN [status |-> "return", exc |-> None, out |-> o2, ret |-> o2, page |-> p]
       ELSE IF Len(items) < per_page
       THEN [status |-> "return", exc |-> None, out |-> o2, ret |-> o2, page |-> p]
       ELSE [status |-> "continue", exc |-> None, out |-> o2, ret |-> <<>>,
             page |-> p + 1]

\* fetch_iteration without the break on a page shorter than per_page.
fetch_iteration_noshort(got, o, p, limit) ==
    IF got.raised
    THEN [status |-> "raise", exc |-> got.exc, out |-> o, ret |-> <<>>, page |-> p]
    ELSE
    LET items == extract_items(got.resp)
        o2 == o \o SelectSeq(items, IsDict)
    IN IF Len(items) = 0
       THEN [status |-> "return", exc |-> None, out |-> o, ret |-> o, page |-> p]
       ELSE IF limit # 0 /\ Len(o2) >= limit
       THEN [status |-> "return", exc |-> None, out |-> o2,
             ret |-> SubSeq(o2, 1, limit), page |-> p]
       ELSE [status |-> "continue", exc |-> None, out |-> o2, ret |-> <<>>,
             page |-> p + 1]

\* fetch_iteration with the request wrapped in try/except: break.
fetch_iteration_swallow(got, o, p, limit) ==
    IF got.raised
    THEN [status |-> "return", exc |-> None, out |-> o, ret |-> o, page |-> p]
    ELSE
    LET items == extract_items(got.resp)
        o2 == o \o SelectSeq(items, IsDict)
    IN IF Len(items) = 0
       THEN [status |-> "return", exc |-> None, out |-> o, ret |-> o, page |-> p]
       ELSE IF limit # 0 /\ Len(o2) >= limit
       THEN [status |-> "return", exc |-> None, out |-> o2,
             ret |-> SubSeq(o2, 1, limit), page |-> p]
       ELSE IF Len(items) < per_page
       THEN [status |-> "return", exc |-> None, out |-> o2, ret |-> o2, page |-> p]
       ELSE [status |-> "continue", exc |-> None, out |-> o2, ret |-> <<>>,
             page |-> p + 1]

\* One iteration of the while loop, given what client.get did.  status is
\* "raise" (the exception leaves the function), "return" (with ret) or
\* "continue" (with the next page number).
fetch_iteration(got, o, p, limit) ==
    IF got.raised
    THEN [status |-> "raise", exc |-> got.exc, out |-> o, ret |-> <<>>, page |-> p]
    ELSE
    LET items == extract_items(got.resp)
        o2 == o \o SelectSeq(items, IsDict)
    IN IF Len(items) = 0
       THEN [status |-> "return", exc |-> None, out |-> o, ret |-> o, page |-> p]
       ELSE IF limit # 0 /\ Len(o2) >= limit
       THEN [status |-> "return", exc |-> None, out |-> o2,
             ret |-> SubSeq(o2, 1, limit), page |-> p]
       ELSE IF Len(items) < per_page
       THEN [status |-> "return", exc |-> None, out |-> o2, ret |-> o2, page |-> p]
       ELSE [status |-> "continue", exc |-> None, out |-> o2, ret |-> <<>>,
             page |-> p + 1]

\* --------------------------------------------------------- aggregation engine

EmptyDict == [k \in {} |-> 0]

\* d[k] = d.get(k, 0.0) + v
DictAdd(d, k, v) ==
    [x \in DOMAIN d \cup {k} |->
        IF x = k THEN (IF k \in DOMAIN d THEN d[k] ELSE 0) + v ELSE d[x]]

\* (symbol or "").strip().upper() or None
symbol_norm_of(symbol) ==
    LET s == Upper(Strip(PyOr(symbol, ""))) IN IF s = "" THEN None ELSE s

\* _parse_dt(bound) if bound else None
bound_dt(bound) == IF TsTruthy(bound) THEN parse_dt(bound) ELSE NoDt

\* Lines 286-289: the accumulators before the loop.
EmptyAcc ==
    [total_volume |-> 0, by_symbol |-> EmptyDict, order_count |-> 0,
     source_available |-> FALSE]

\* order_step with `vol < 0` for `vol <= 0`.
order_step_nonneg(acc, order, since_dt, until_dt, symbol_norm, count_only) ==
    LET created == parse_dt(order.created_at)
        sym == Strip(PyOr(PyOr(order.symbol, order.asset_id), ""))
        vol == order_volume_contribution(order)
        seen == \E k \in 1..Len(SOURCE_KEYS) : order[SOURCE_KEYS[k]] # None
        acc1 == [acc EXCEPT !.source_available = @ \/ seen]
    IN IF (~since_dt.none \/ ~until_dt.none) /\ created.none THEN acc
       ELSE IF ~since_dt.none /\ ~created.none
               /\ DtLess(norm_dt(created), norm_dt(since_dt)) THEN acc
       ELSE IF ~until_dt.none /\ ~created.none
               /\ DtLess(norm_dt(until_dt), norm_dt(created)) THEN acc
       ELSE IF symbol_norm # None /\ Upper(sym) # symbol_norm THEN acc
       ELSE IF ~order_is_filled(order) THEN acc
       ELSE IF count_only /\ ~is_api_sourced(order) THEN acc
       ELSE IF vol < 0 THEN acc1
       ELSE [acc1 EXCEPT !.total_volume = @ + vol,
                         !.order_count = @ + 1,
                         !.by_symbol = IF sym # "" THEN DictAdd(@, sym, vol)
                                       ELSE @]

\* order_step keying by_symbol by the upper-cased symbol.
order_step_upperkey(acc, order, since_dt, until_dt, symbol_norm, count_only) ==
    LET created == parse_dt(order.created_at)
        sym == Strip(PyOr(PyOr(order.symbol, order.asset_id), ""))
        vol == order_volume_contribution(order)
        seen == \E k \in 1..Len(SOURCE_KEYS) : order[SOURCE_KEYS[k]] # None
        acc1 == [acc EXCEPT !.source_available = @ \/ seen]
    IN IF (~since_dt.none \/ ~until_dt.none) /\ created.none THEN acc
       ELSE IF ~since_dt.none /\ ~created.none
               /\ DtLess(norm_dt(created), norm_dt(since_dt)) THEN acc
       ELSE IF ~until_dt.none /\ ~created.none
               /\ DtLess(norm_dt(until_dt), norm_dt(created)) THEN acc
       ELSE IF symbol_norm # None /\ Upper(sym) # symbol_norm THEN acc
       ELSE IF ~order_is_filled(order) THEN acc
       ELSE IF count_only /\ ~is_api_sourced(order) THEN acc
       ELSE IF vol <= 0 THEN acc1
       ELSE [acc1 EXCEPT !.total_volume = @ + vol,
                         !.order_count = @ + 1,
                         !.by_symbol = IF sym # "" THEN DictAdd(@, Upper(sym), vol)
                                       ELSE @]

\* order_step with bounds that exclude the instant of the bound itself.
order_step_exclusive(acc, order, since_dt, until_dt, symbol_norm, count_only) ==
    LET created == parse_dt(order.created_at)
        sym == Strip(PyOr(PyOr(order.symbol, order.asset_id), ""))
        vol == order_volume_contribution(order)
        seen == \E k \in 1..Len(SOURCE_KEYS) : order[SOURCE_KEYS[k]] # None
        acc1 == [acc EXCEPT !.source_available = @ \/ seen]
    IN IF (~since_dt.none \/ ~until_dt.none) /\ created.none THEN acc
       ELSE IF ~since_dt.none /\ ~created.none
               /\ ~DtLess(norm_dt(since_dt), norm_dt(created)) THEN acc
       ELSE IF ~until_dt.none /\ ~created.none
               /\ ~DtLess(norm_dt(created), norm_dt(until_dt)) THEN acc
       ELSE IF symbol_norm # None /\ Upper(sym) # symbol_norm THEN acc
       ELSE IF ~order_is_filled(order) THEN acc
       ELSE IF count_only /\ ~is_api_sourced(order) THEN acc
       ELSE IF vol <= 0 THEN acc1
       ELSE [acc1 EXCEPT !.total_volume = @ + vol,
                         !.order_count = @ + 1,
                         !.by_symbol = IF sym # "" THEN DictAdd(@, sym, vol)
                                       ELSE @]

\* Lines 292-336: the body of the loop over raw_orders, for one order.
order_step(acc, order, since_dt, until_dt, symbol_norm, count_only) ==
    LET created == parse_dt(order.created_at)
        sym == Strip(PyOr(PyOr(order.symbol, order.asset_id), ""))
        vol == order_volume_contribution(order)
        seen == \E k \in 1..Len(SOURCE_KEYS) : order[SOURCE_KEYS[k]] # None
        acc1 == [acc EXCEPT !.source_available = @ \/ seen]
    IN IF (~since_dt.none \/ ~until_dt.none) /\ created.none THEN acc
       ELSE IF ~since_dt.none /\ ~created.none
               /\ DtLess(norm_dt(created), norm_dt(since_dt)) THEN acc
       ELSE IF ~until_dt.none /\ ~created.none
               /\ DtLess(norm_dt(until_dt), norm_dt(created)) THEN acc
       ELSE IF symbol_norm # None /\ Upper(sym) # symbol_norm THEN acc
       ELSE IF ~order_is_filled(order) THEN acc
       ELSE IF count_only /\ ~is_api_sourced(order) THEN acc
       ELSE IF vol <= 0 THEN acc1
       ELSE [acc1 EXCEPT !.total_volume = @ + vol,
                         !.order_count = @ + 1,
                         !.by_symbol = IF sym # "" THEN DictAdd(@, sym, vol)
                                       ELSE @]

\* TRUE, once v has been evaluated.
Evaluated(v) == v = v

\* The loop over raw_orders, for orders[lo..hi] in order, starting from acc.
\* The range is split in two and the accumulators of the first half are
\* evaluated before the second half is entered, so that the evaluation
\* nests to a depth of log(hi - lo); the orders are visited first to last.
RECURSIVE aggregate_from(_, _, _, _, _, _, _, _)
aggregate_from(orders, lo, hi, acc, since_dt, until_dt, symbol_norm, count_only) ==
    IF Evaluated(acc) /\ lo > hi THEN acc
    ELSE IF lo = hi
    THEN order_step(acc, orders[lo], since_dt, until_dt, symbol_norm, count_only)
    ELSE LET mid == (lo + hi) \div 2
             left == aggregate_from(orders, lo, mid, acc, since_dt, until_dt,
                                    symbol_norm, count_only)
         IN aggregate_from(orders, mid + 1, hi, left, since_dt, until_dt,
                           symbol_norm, count_only)

\* --------------------------------------------------------- fee reconciliation

\* Lines 141-170: the body of the loop over the fee records, for one record.
fee_step(acc, fee, since_dt, until_dt) ==
    LET created_dt == parse_dt(fee.created_at) IN
    IF (~since_dt.none \/ ~until_dt.none) /\ created_dt.none THEN acc
    ELSE IF ~since_dt.none /\ ~created_dt.none
            /\ DtLess(norm_dt(created_dt), norm_dt(since_dt)) THEN acc
    ELSE IF ~until_dt.none /\ ~created_dt.none
            /\ DtLess(norm_dt(until_dt), norm_dt(created_dt)) THEN acc
    ELSE IF IsFloat(fee.fee_amount)
         THEN [acc EXCEPT !.total = @ + FloatOf(fee.fee_amount),
                          !.count = @ + 1]
         ELSE acc

RECURSIVE fee_loop(_, _, _, _, _)
fee_loop(fees, i, acc, since_dt, until_dt) ==
    IF i > Len(fees) THEN acc
    ELSE fee_loop(fees, i + 1, fee_step(acc, fees[i], since_dt, until_dt),
                  since_dt, until_dt)

\* _fetch_actual_fees without the try/except around get_history.
fetch_actual_fees_propagate(feed, since_dt, until_dt) ==
    IF feed.raises # None
    THEN [raised |-> TRUE, total |-> 0, count |-> 0]
    ELSE LET acc == fee_loop(feed.fees, 1, [total |-> 0, count |-> 0],
                             since_dt, until_dt)
         IN [raised |-> FALSE, total |-> acc.total, count |-> acc.count]

\* _fetch_actual_fees: raised is whether an exception leaves the function.
fetch_actual_fees(feed, since_dt, until_dt) ==
    IF feed.raises # None
    THEN [raised |-> FALSE, total |-> 0, count |-> 0]
    ELSE LET acc == fee_loop(feed.fees, 1, [total |-> 0, count |-> 0],
                             since_dt, until_dt)
         IN [raised |-> FALSE, total |-> acc.total, count |-> acc.count]

\* ----------------------------------------------------------------- calculator

Min(a, b) == IF a < b THEN a ELSE b
Max(a, b) == IF a > b THEN a ELSE b

\* VolumeFeesCalculator.__init__ without the clamp of line 243.
construct_noclamp(alpha_tier, count_only_api_sourced) ==
    [requested |-> alpha_tier,
     raised |-> alpha_tier \notin 0..6,
     alpha_tier |-> alpha_tier,
     count_only_api_sourced |-> count_only_api_sourced]

\* VolumeFeesCalculator.__init__: the tier is clamped to 0..6 and converted
\* with AlphaTier(clamped), which raises ValueError outside 0..6.  requested
\* is the argument as it was passed (tier_val), raised whether the
\* constructor failed.
construct(alpha_tier, count_only_api_sourced) ==
    LET tier_val == alpha_tier
        clamped == Max(0, Min(6, tier_val))
    IN [requested |-> tier_val,
        raised |-> clamped \notin 0..6,
        alpha_tier |-> clamped,
        count_only_api_sourced |-> count_only_api_sourced]

\* The report before calculate has returned one.
NoResult ==
    [returned |-> FALSE, total_volume |-> 0, estimated_fees |-> 0,
     fee_rate_pct |-> 0, order_count |-> 0, by_symbol |-> EmptyDict,
     source_available |-> FALSE, has_actual_fees |-> FALSE,
     actual_fees |-> 0, actual_fee_count |-> 0]

\* Lines 338-352: the result dict built from the accumulators.
build_result(acc, fee_rate) ==
    [returned |-> TRUE,
     total_volume |-> acc.total_volume,
     estimated_fees |-> acc.total_volume * fee_rate,
     fee_rate_pct |-> fee_rate,
     order_count |-> acc.order_count,
     by_symbol |-> acc.by_symbol,
     source_available |-> acc.source_available,
     has_actual_fees |-> FALSE, actual_fees |-> 0, actual_fee_count |-> 0]

\* hasattr(self._client, "fees")
HasFees(cl) == cl.feed.present

OrdersCall(p) == [endpoint |-> "orders", page |-> p, per_page |-> per_page]
FeesCall == [endpoint |-> "fees", page |-> 0, per_page |-> 0]

\* calculate is entered and calls fetch_raw_order_history (lines 278, 185-187).
Calculate_carry ==
    /\ pc \in {"idle", "done", "failed"}
    /\ ~config.raised
    /\ Len(reports) < MaxCalls
    /\ pc' = "fetch"
    /\ page' = 1
    /\ out' = raw_orders
    /\ calls' = <<>>
    /\ result' = NoResult
    /\ error' = None
    /\ UNCHANGED <<client, config, args, raw_orders, reports, probe, probe_out>>

\* calculate is entered, on a new calculator or after an earlier call ended,
\* and calls fetch_raw_order_history (lines 278, 185-187): out, page and the
\* accumulators are locals of the call, nothing is read from the calculator
\* but the client, the tier and the origin flag.  calls, result and error are
\* those of the call in progress.
Calculate ==
    /\ pc \in {"idle", "done", "failed"}
    /\ ~config.raised
    /\ Len(reports) < MaxCalls
    /\ pc' = "fetch"
    /\ page' = 1
    /\ out' = <<>>
    /\ calls' = <<>>
    /\ result' = NoResult
    /\ error' = None
    /\ UNCHANGED <<client, config, args, raw_orders, reports, probe, probe_out>>

\* One iteration of the fetcher's loop: a page request and what follows it.
FetchPage ==
    /\ pc = "fetch"
    /\ page <= MaxPages
    /\ LET it == fetch_iteration(client_get(client, page), out, page, args.limit)
       IN /\ calls' = Append(calls, OrdersCall(page))
          /\ out' = it.out
          /\ page' = it.page
          /\ pc' = CASE it.status = "raise" -> "failed"
                     [] it.status = "return" -> "aggregate"
                     [] OTHER -> "fetch"
          /\ error' = IF it.status = "raise" THEN it.exc ELSE error
          /\ raw_orders' = IF it.status = "return" THEN it.ret ELSE raw_orders
          /\ reports' = IF it.status = "raise" THEN Append(reports, NoResult)
                        ELSE reports
    /\ UNCHANGED <<client, config, args, result, probe, probe_out>>

\* Lines 279-352: the bounds are parsed, the orders filtered and summed, the
\* rate looked up and the report built; calculate returns it unless the fee
\* history is to be fetched.
Aggregate ==
    /\ pc = "aggregate"
    /\ LET since_dt == bound_dt(args.since)
           until_dt == bound_dt(args.until)
           acc == aggregate_from(raw_orders, 1, Len(raw_orders), EmptyAcc,
                                 since_dt, until_dt,
                                 symbol_norm_of(args.symbol),
                                 config.count_only_api_sourced)
           rate == get_fee_rate(config.alpha_tier)
       IN IF rate.raised
          THEN /\ pc' = "failed"
               /\ error' = "ValueError"
               /\ result' = result
               /\ reports' = Append(reports, NoResult)
          ELSE /\ result' = build_result(acc, rate.rate)
               /\ pc' = IF args.include_actual_fees /\ HasFees(client)
                        THEN "fees" ELSE "done"
               /\ error' = error
               /\ reports' = IF args.include_actual_fees /\ HasFees(client)
                             THEN reports ELSE Append(reports, result')
    /\ UNCHANGED <<client, config, args, page, out, raw_orders, calls,
                   probe, probe_out>>

\* FetchActualFees calling the feed a second time before calculate returns.
FetchActualFees_twice ==
    /\ pc = "fees"
    /\ calls' = Append(calls, FeesCall)
    /\ LET got == fetch_actual_fees(client.feed, bound_dt(args.since),
                                    bound_dt(args.until))
       IN /\ pc' = IF result.has_actual_fees THEN "done" ELSE "fees"
          /\ error' = error
          /\ result' = [result EXCEPT !.has_actual_fees = TRUE,
                                      !.actual_fees = got.total,
                                      !.actual_fee_count = got.count]
          /\ reports' = IF result.has_actual_fees
                        THEN Append(reports, result') ELSE reports
    /\ UNCHANGED <<client, config, args, page, out, raw_orders, probe, probe_out>>

\* Lines 355-365: the fee history is fetched and reconciled, and calculate
\* returns.
FetchActualFees ==
    /\ pc = "fees"
    /\ calls' = Append(calls, FeesCall)
    /\ LET got == fetch_actual_fees(client.feed, bound_dt(args.since),
                                    bound_dt(args.until))
       IN IF got.raised
          THEN /\ pc' = "failed"
               /\ error' = client.feed.raises
               /\ result' = NoResult
               /\ reports' = Append(reports, NoResult)
          ELSE /\ pc' = "done"
               /\ error' = error
               /\ result' = [result EXCEPT !.has_actual_fees = TRUE,
                                           !.actual_fees = got.total,
                                           !.actual_fee_count = got.count]
               /\ reports' = Append(reports, result')
    /\ UNCHANGED <<client, config, args, page, out, raw_orders, probe, probe_out>>

Next == Calculate \/ FetchPage \/ Aggregate \/ FetchActualFees

\* --------------------------------------------------------------------- inputs

\* A filled BTCUSDT order of notional 2 * 3, stamped 10:00 IST, no origin field.
BaseOrder ==
    [pytype |-> "dict", created_at |-> IsoNaive(600),
     symbol |-> "BTCUSDT", asset_id |-> None, status |-> "FILLED",
     source |-> None, order_source |-> None, origin |-> None,
     filled_quantity |-> "2", filled_size |-> None,
     price |-> "3", order_price |-> None]

\* A list entry that is not a dict.
Junk == [BaseOrder EXCEPT !.pytype = "str"]

EthOrder == [BaseOrder EXCEPT !.symbol = "ETHUSDT", !.filled_quantity = "5"]
NoSymOrder == [BaseOrder EXCEPT !.symbol = None, !.price = "5"]

\* The time bounds a caller passes: 10:00 IST and 11:00 IST, given as naive
\* ISO strings or as the same instant with a zero offset.
SinceValues == {TsNone, TsGarbage, IsoNaive(600), IsoAware(270, 0)}
UntilValues == {TsNone, TsGarbage, IsoNaive(660)}

\* created_at values: unparseable ones, and instants before, at, inside and
\* after the window, naive and with a zero offset.
CreatedValues ==
    {TsNone, TsEmpty, TsGarbage, IsoNaive(599), IsoNaive(600), IsoNaive(630),
     IsoAware(269, 0), IsoAware(270, 0), IsoAware(330, 0), IsoAware(331, 0),
     IsoAware(600, 0)}

TimeOrders == {[BaseOrder EXCEPT !.created_at = c] : c \in CreatedValues}

SymbolOrders ==
    {[BaseOrder EXCEPT !.symbol = sa[1], !.asset_id = sa[2]] :
        sa \in {<<"btcusdt", None>>, <<" ETHUSDT ", None>>, <<None, None>>,
                <<"", None>>, <<"  ", None>>, <<None, "ETHUSDT">>,
                <<"", "btcusdt">>, <<"BTCUSDT", "ETHUSDT">>}}

StatusOrders ==
    {[BaseOrder EXCEPT !.status = st] :
        st \in {"filled", "PARTIALLY_FILLED", "Partially_Filled", "OPEN",
                "CANCELLED", "", None}}

OriginOrders ==
    {[BaseOrder EXCEPT !.source = t[1], !.order_source = t[2], !.origin = t[3]] :
        t \in {<<"API", None, None>>, <<"web", None, None>>,
               <<"BOT", None, None>>, <<"BOT", "MANUAL", None>>,
               <<None, "true", "WEB">>, <<None, None, "0">>,
               <<"", None, "IOS">>, <<"WEB", "API", None>>}}

NotionalOrders ==
    {[BaseOrder EXCEPT !.filled_quantity = q[1], !.filled_size = q[2],
                       !.price = q[3], !.order_price = q[4]] :
        q \in {<<"0", "2", "3", None>>, <<None, "2", "3", None>>,
               <<"", "5", "3", None>>, <<None, None, "3", None>>,
               <<"-1", None, "3", None>>, <<"abc", None, "3", None>>,
               <<"2", None, None, "5">>, <<"2", None, None, None>>,
               <<"2", None, "0", "5">>, <<"2", None, "abc", None>>,
               <<"-1", None, "-1", None>>}}

ClassOrders == SymbolOrders \cup StatusOrders \cup OriginOrders \cup NotionalOrders

Run(e, k) == [entry |-> e, n |-> k]
Page(shape, runs) == [raises |-> None, shape |-> shape, runs |-> runs]
RaisePage(exc) == [raises |-> exc, shape |-> "list", runs |-> <<>>]
EmptyPage == Page("data_items", <<>>)

\* Full pages: 100 dicts; 50 dicts among 50 other entries; 100 other entries.
FullDicts == Page("data_items", <<Run(BaseOrder, per_page)>>)
FullMixed == Page("data_items", <<Run(Junk, 50), Run(EthOrder, per_page - 50)>>)
FullJunk == Page("data_items", <<Run(Junk, per_page)>>)
ShortPage == Page("data_items", <<Run(EthOrder, per_page - 1)>>)

Feed(fees) == [present |-> TRUE, raises |-> None, fees |-> fees]
NoFeed == [present |-> FALSE, raises |-> None, fees |-> <<>>]
RaisingFeed == [present |-> TRUE, raises |-> "FeeFeedError", fees |-> <<>>]

Fee(created_at, amount) == [created_at |-> created_at, fee_amount |-> amount]

\* The feed of the local edge-case test: one stamped fee, one without a stamp.
TestFeed == Feed(<<Fee(IsoAware(271, 0), "2"), Fee(TsNone, "3")>>)

Source(pages, tail, feed) == [pages |-> pages, tail |-> tail, feed |-> feed]

Args(since, until, symbol, limit, include_actual_fees) ==
    [since |-> since, until |-> until, symbol |-> symbol, limit |-> limit,
     include_actual_fees |-> include_actual_fees]

Scenario(cl, cfg, a) == [client |-> cl, config |-> cfg, args |-> a]

Seqs(S, n) == UNION {[1..k -> S] : k \in 0..n}

\* Pagination: up to two listed pages, then the same answer for every later
\* page number; caps of no cap, 1, 50, 100, 101 and 150 records.
PagingScenarios ==
    {Scenario(Source(ps, tl, fd), construct(0, TRUE),
              Args(TsNone, TsNone, None, lim, TRUE)) :
        ps \in Seqs({FullDicts, FullMixed, FullJunk, ShortPage, EmptyPage,
                     RaisePage("ConnectionError")}, 2),
        tl \in {EmptyPage, FullDicts, FullMixed, FullJunk, RaisePage("Timeout")},
        fd \in {NoFeed, RaisingFeed, TestFeed},
        lim \in {0, 1, 50, per_page, per_page + 1, per_page + 50}}

\* One short page of one or two orders.
OnePage(orders) ==
    Source(<<Page("data_items", [i \in 1..Len(orders) |-> Run(orders[i], 1)])>>,
           EmptyPage, TestFeed)

WindowScenarios ==
    {Scenario(OnePage(<<o>> \o rest), construct(2, TRUE),
              Args(si, un, None, 50, TRUE)) :
        o \in TimeOrders, rest \in {<<>>, <<EthOrder>>},
        si \in SinceValues, un \in UntilValues}

ClassScenarios ==
    {Scenario(OnePage(<<o>> \o rest), construct(0, co),
              Args(si, TsNone, sy, 0, TRUE)) :
        o \in ClassOrders,
        rest \in {<<>>, <<EthOrder>>, <<NoSymOrder>>, <<BaseOrder>>},
        co \in BOOLEAN, si \in {TsNone, IsoNaive(600)},
        sy \in {None, "btcusdt", " ETHUSDT "}}

FeeScenarios ==
    {Scenario(Source(<<Page("list", <<Run(BaseOrder, 1)>>)>>, EmptyPage, fd),
              construct(0, TRUE), Args(si, un, None, 0, inc)) :
        fd \in {NoFeed, RaisingFeed, TestFeed, Feed(<<>>),
                Feed(<<Fee(IsoNaive(599), "5"), Fee(IsoNaive(660), "abc"),
                       Fee(IsoNaive(660), "3")>>)},
        si \in SinceValues, un \in UntilValues, inc \in BOOLEAN}

TierScenarios ==
    {Scenario(OnePage(<<BaseOrder>>), construct(t, TRUE),
              Args(TsNone, TsNone, None, 0, FALSE)) :
        t \in (0 - TierSlack)..(6 + TierSlack)}

EnvelopeScenarios ==
    {Scenario(Source(<<Page(sh, rs)>>, EmptyPage, NoFeed), construct(0, FALSE),
              Args(TsNone, TsNone, None, 0, TRUE)) :
        sh \in {"list", "items", "data_list", "data_items", "data_data",
                "items_nulldata", "data_scalaritems",
                "items_scalar", "data_scalar", "empty_dict", "none"},
        rs \in {<<Run(BaseOrder, 1)>>, <<Run(Junk, 1), Run(EthOrder, 1)>>,
                <<Run(EthOrder, 1), Run(Junk, 2), Run(BaseOrder, 1)>>}}

Scenarios ==
    PagingScenarios \cup WindowScenarios \cup ClassScenarios \cup FeeScenarios
        \cup TierScenarios \cup EnvelopeScenarios

InitWith(S) ==
    /\ \E sc \in S :
        /\ client = sc.client
        /\ config = sc.config
        /\ args = sc.args
    /\ pc = "idle"
    /\ page = 0
    /\ out = <<>>
    /\ raw_orders = <<>>
    /\ calls = <<>>
    /\ result = NoResult
    /\ error = None
    /\ reports = <<>>
    /\ probe_out = [applied |-> FALSE, value |-> FALSE]

Init == InitWith(Scenarios) /\ probe = BaseOrder

Spec == Init /\ [][Next]_vars

\* The scenarios of a capped fetch from a source that answers every page
\* number it is asked for with a full page, or with an empty one in the end;
\* a calculate call is made, and the fetcher's loop runs on.
CapScenarios ==
    {Scenario(Source(ps, tl, TestFeed), construct(0, TRUE),
              Args(TsNone, TsNone, None, lim, TRUE)) :
        ps \in Seqs({FullDicts, FullMixed, FullJunk}, 1),
        tl \in {EmptyPage, FullDicts, FullMixed, FullJunk},
        lim \in {1, 50, per_page, per_page + 1, per_page + 50}}

InitPaging == InitWith(CapScenarios) /\ probe = BaseOrder

SpecPaging ==
    InitPaging /\ [][Next]_vars /\ WF_vars(Calculate) /\ WF_vars(FetchPage)

\* The record classifier on its own: a record whose three candidate fields
\* hold any of these values, and one application of _is_api_sourced to it.
OriginValues ==
    {None, "", "API", "api", "1", "TRUE", "true", "WEB", "web", "IOS",
     "ANDROID", "MANUAL", "0", "FALSE", "BOT"}

OriginProbes ==
    {[BaseOrder EXCEPT !.source = a, !.order_source = b, !.origin = c] :
        a \in OriginValues, b \in OriginValues, c \in OriginValues}

InitOrigin ==
    /\ InitWith({Scenario(OnePage(<<BaseOrder>>), construct(0, TRUE),
                          Args(TsNone, TsNone, None, 0, TRUE))})
    /\ probe \in OriginProbes

Classify ==
    /\ ~probe_out.applied
    /\ probe_out' = [applied |-> TRUE, value |-> is_api_sourced(probe)]
    /\ UNCHANGED <<client, config, args, pc, page, out, raw_orders, calls,
                   result, error, reports, probe>>

SpecOrigin == InitOrigin /\ [][Classify]_vars

\* The tier table lookup on its own: a tier value in or around the table, and
\* one call of get_fee_rate with it.
TierProbes == {[tier |-> t] : t \in (0 - LookupSlack)..(6 + LookupSlack)}

InitTier ==
    /\ InitWith({Scenario(OnePage(<<BaseOrder>>), construct(0, TRUE),
                          Args(TsNone, TsNone, None, 0, TRUE))})
    /\ probe \in TierProbes

Lookup ==
    /\ ~probe_out.applied
    /\ probe_out' = [applied |-> TRUE, value |-> get_fee_rate(probe.tier)]
    /\ UNCHANGED <<client, config, args, pc, page, out, raw_orders, calls,
                   result, error, reports, probe>>

SpecTier == InitTier /\ [][Lookup]_vars

\* ------------------------------------------------- what the source served

\* The envelope shapes that carry a list of entries.
ListShapes == {"list", "items", "data_list", "data_items", "data_data"}

RECURSIVE RunTotal(_, _)
RunTotal(runs, dictsOnly) ==
    IF runs = <<>> THEN 0
    ELSE (IF dictsOnly /\ Head(runs).entry.pytype # "dict" THEN 0
          ELSE Head(runs).n) + RunTotal(Tail(runs), dictsOnly)

\* How many entries, and how many dict entries, page p of the source holds.
EntryCount(p) ==
    LET d == SourcePage(client, p) IN
    IF d.raises = None /\ d.shape \in ListShapes THEN RunTotal(d.runs, FALSE) ELSE 0

DictCount(p) ==
    LET d == SourcePage(client, p) IN
    IF d.raises = None /\ d.shape \in ListShapes THEN RunTotal(d.runs, TRUE) ELSE 0

PageRaises(p) == SourcePage(client, p).raises # None

RECURSIVE DictsUpTo(_)
DictsUpTo(p) == IF p = 0 THEN 0 ELSE DictCount(p) + DictsUpTo(p - 1)

\* The cap is reached once pages 1..p have brought `limit` dict entries.
CapReached(p) == args.limit > 0 /\ DictsUpTo(p) >= args.limit

OrderCalls == SelectSeq(calls, LAMBDA c : c.endpoint = "orders")
FeeCalls == SelectSeq(calls, LAMBDA c : c.endpoint = "fees")

\* fetch_raw_order_history has returned to calculate.
FetchReturned == pc \in {"aggregate", "fees", "done"}

\* Every page number is answered with a full page.
FullForever ==
    \A p \in 1..(Len(client.pages) + 1) : ~PageRaises(p) /\ EntryCount(p) = per_page

\* ... each holding at least one dict entry.
DictsForever ==
    FullForever /\ \A p \in 1..(Len(client.pages) + 1) : DictCount(p) >= 1

\* --------------------------------------------- what the report should hold

\* A timestamp value denotes an instant (minutes, UTC) when it is an ISO
\* string or a datetime: its wall time less its own offset, or less IST's
\* when it carries none.
Parseable(v) == v.kind \in {"iso", "datetime"}
Instant(v) == v.local - (IF v.aware THEN v.off ELSE IST)

\* The caller supplied the bound; the bound denotes an instant.
Supplied(b) == b.kind \notin {"none", "empty"}
Effective(b) == Supplied(b) /\ Parseable(b)

InWindow(v) ==
    /\ Effective(args.since) => Instant(args.since) <= Instant(v)
    /\ Effective(args.until) => Instant(v) <= Instant(args.until)

PassesTime(o) ==
    IF Effective(args.since) \/ Effective(args.until)
    THEN Parseable(o.created_at) /\ InWindow(o.created_at)
    ELSE TRUE

\* The record's instrument: the first of symbol, asset_id that is there and
\* not empty, trimmed.
SymbolOf(o) ==
    Strip(IF o.symbol \notin {None, ""} THEN o.symbol
          ELSE IF o.asset_id \notin {None, ""} THEN o.asset_id
          ELSE "")

PassesInstrument(o) ==
    \/ args.symbol = None
    \/ Strip(args.symbol) = ""
    \/ Upper(SymbolOf(o)) = Upper(Strip(args.symbol))

IsFilled(o) ==
    o.status # None /\ Upper(o.status) \in {"FILLED", "PARTIALLY_FILLED"}

ApiTokens == {"API", "1", "TRUE"}
ManualTokens == {"WEB", "IOS", "ANDROID", "MANUAL", "0", "FALSE"}

\* The candidate fields of a record that hold a recognised origin token.
Recognised(o) ==
    {k \in 1..Len(SOURCE_KEYS) :
        o[SOURCE_KEYS[k]] # None
        /\ Upper(o[SOURCE_KEYS[k]]) \in ApiTokens \cup ManualTokens}

\* Programmatic: the first recognised field says API, or none is recognised.
Programmatic(o) ==
    \/ Recognised(o) = {}
    \/ LET k == CHOOSE j \in Recognised(o) : \A i \in Recognised(o) : j <= i
       IN Upper(o[SOURCE_KEYS[k]]) \in ApiTokens

PassesOrigin(o) == config.count_only_api_sourced => Programmatic(o)

\* Filled quantity times price; 0 when either is missing or not a number.
Notional(o) ==
    LET q == IF o.filled_quantity \notin {None, ""} THEN o.filled_quantity
             ELSE o.filled_size
        pr == IF o.price \notin {None, ""} THEN o.price ELSE o.order_price
    IN IF q \in NumericStrings /\ pr \in NumericStrings
       THEN FloatOf(q) * FloatOf(pr) ELSE 0

PassesFilters(o) ==
    PassesTime(o) /\ PassesInstrument(o) /\ IsFilled(o) /\ PassesOrigin(o)

Counted(o) == PassesFilters(o) /\ Notional(o) > 0

\* The sum of xs[lo..hi].
RECURSIVE SumSeq(_, _, _)
SumSeq(xs, lo, hi) ==
    IF lo > hi THEN 0
    ELSE IF lo = hi THEN xs[lo]
    ELSE SumSeq(xs, lo, (lo + hi) \div 2) + SumSeq(xs, (lo + hi) \div 2 + 1, hi)

\* The sum of Notional over the fetched records that satisfy Keep.
VolumeOf(Keep(_)) ==
    SumSeq([i \in 1..Len(raw_orders) |->
               IF Keep(raw_orders[i]) THEN Notional(raw_orders[i]) ELSE 0],
           1, Len(raw_orders))

NumberOf(Keep(_)) ==
    Cardinality({i \in 1..Len(raw_orders) : Keep(raw_orders[i])})

CountedSymbols ==
    {SymbolOf(raw_orders[i]) : i \in {j \in 1..Len(raw_orders) : Counted(raw_orders[j])}}

RECURSIVE SumValues(_, _)
SumValues(d, keys) ==
    IF keys = {} THEN 0
    ELSE LET k == CHOOSE x \in keys : TRUE IN d[k] + SumValues(d, keys \ {k})

HasOriginField(o) == \E k \in 1..Len(SOURCE_KEYS) : o[SOURCE_KEYS[k]] # None

\* ------------------------------------------------------------------ claims

C2_PagesInOrder ==
    /\ \A i \in 1..Len(OrderCalls) :
          OrderCalls[i].page = i /\ OrderCalls[i].per_page = 100
    /\ \A i \in 1..(Len(OrderCalls) - 1) :
          ~PageRaises(i) /\ EntryCount(i) = 100 /\ ~CapReached(i)
    /\ (FetchReturned \/ pc = "failed") => page = Len(OrderCalls)

\* C2 witness: two full pages, then an empty third page ended the fetch.
C2_Witness ==
    /\ FetchReturned
    /\ Len(OrderCalls) = 3
    /\ EntryCount(1) = 100 /\ EntryCount(2) = 100 /\ EntryCount(3) = 0
    /\ ~PageRaises(3)

\* C5: if the source raises on an order-history page request, calculate ends
\* with that exception: no report is returned, nothing is requested after
\* the failed request, and the volume of the pages fetched before is lost.
C5_TransportFatal ==
    \A i \in 1..Len(calls) :
        (calls[i].endpoint = "orders" /\ PageRaises(calls[i].page))
            => /\ pc = "failed"
               /\ error = SourcePage(client, calls[i].page).raises
               /\ result = NoResult
               /\ i = Len(calls)

\* C5 witness: the third request raised after two pages had brought records.
C5_Witness ==
    /\ pc = "failed"
    /\ Len(calls) = 3
    /\ PageRaises(3)
    /\ Len(out) > 0

\* C7: the fee-history feed is called at most once in a calculate call, and
\* only as the last call, after every order-history page request.
C7_FeesAfterOrders ==
    /\ Len(FeeCalls) <= 1
    /\ \A i \in 1..Len(calls) :
          calls[i].endpoint = "fees"
              => i = Len(calls) /\ i > 1 /\ pc = "done"

\* C7 witness: the fee feed was called after three order-history pages.
C7_Witness ==
    /\ Len(FeeCalls) = 1
    /\ Len(OrderCalls) = 3
    /\ calls[4].endpoint = "fees"

\* C3 (as stated): a record whose created_at is unparseable is left out of
\* total_volume and order_count whenever the caller supplied since or until,
\* and is counted, if it passes the other filters, when neither was supplied.
C3_UnparseableExcluded ==
    result.returned =>
        LET bounded == Supplied(args.since) \/ Supplied(args.until)
            Keep(o) == Counted(o) /\ (bounded => Parseable(o.created_at))
        IN /\ result.total_volume = VolumeOf(Keep)
           /\ result.order_count = NumberOf(Keep)

\* C4 (as stated): source_available is true iff some fetched record, counted
\* or not, holds a non-null source, order_source or origin.
C4_SourceAvailable ==
    result.returned =>
        (result.source_available
            <=> \E i \in 1..Len(raw_orders) : HasOriginField(raw_orders[i]))

\* C6: if the fee feed raises when calculate (include_actual_fees true) calls
\* it, calculate still returns a report: volume, count, per-symbol volume,
\* rate and estimate are what the fetched records give, and actual_fees and
\* actual_fee_count are 0.  The feed is called whenever the client has one.
C6_FeeFailureIsolated ==
    /\ (pc = "done" /\ args.include_actual_fees /\ client.feed.present)
          => Len(FeeCalls) = 1
    /\ (Len(FeeCalls) >= 1 /\ client.feed.raises # None)
          => /\ pc = "done"
             /\ result.returned
             /\ result.has_actual_fees
             /\ result.actual_fees = 0
             /\ result.actual_fee_count = 0
             /\ result.total_volume = VolumeOf(Counted)
             /\ result.order_count = NumberOf(Counted)
             /\ SumValues(result.by_symbol, DOMAIN result.by_symbol)
                    = VolumeOf(LAMBDA o : Counted(o) /\ SymbolOf(o) # "")
             /\ result.fee_rate_pct = FEE_RATES[config.alpha_tier + 1]
             /\ result.estimated_fees
                    = VolumeOf(Counted) * FEE_RATES[config.alpha_tier + 1]

\* C6 witness: the fee feed raised and a report with volume came back.
C6_Witness ==
    /\ pc = "done"
    /\ Len(FeeCalls) = 1
    /\ client.feed.raises # None
    /\ result.returned
    /\ result.total_volume > 0
    /\ result.actual_fees = 0

\* C8: total_volume is the sum of filled quantity times price over exactly
\* the fetched records that pass the time and instrument filters, are FILLED
\* or PARTIALLY_FILLED in any case, are programmatic when
\* count_only_api_sourced is set, and have notional > 0; order_count is their
\* number; by_symbol has no key but their instruments.
C8_VolumeOfCounted ==
    result.returned =>
        /\ result.total_volume = VolumeOf(Counted)
        /\ result.order_count = NumberOf(Counted)
        /\ DOMAIN result.by_symbol \subseteq CountedSymbols

\* C8 witness: of two records that pass every filter one has notional 0 (its
\* filled_quantity is "0", its filled_size is not); only the other counts.
C8_Witness ==
    /\ result.returned
    /\ Len(raw_orders) = 2
    /\ PassesFilters(raw_orders[1]) /\ PassesFilters(raw_orders[2])
    /\ raw_orders[1].filled_quantity = "0" /\ raw_orders[1].filled_size = "2"
    /\ result.order_count = 1
    /\ result.total_volume = 10

\* C9 (as stated): every contribution to total_volume is also added to
\* by_symbol under the record's symbol exactly as it appeared, so the values
\* of by_symbol sum to total_volume.
C9_Original ==
    result.returned =>
        /\ SumValues(result.by_symbol, DOMAIN result.by_symbol)
              = result.total_volume
        /\ \A k \in DOMAIN result.by_symbol :
              \E i \in 1..Len(raw_orders) :
                  k \in {raw_orders[i].symbol, raw_orders[i].asset_id}

\* C9 (amended): every contribution of a record that has an instrument is
\* added to by_symbol under that instrument, trimmed, in the case it has on
\* the record; a record with no instrument contributes to total_volume
\* alone, so the values of by_symbol sum to total_volume less the
\* contributions of the records without instrument.
C9_BySymbol ==
    result.returned =>
        /\ DOMAIN result.by_symbol = CountedSymbols \ {""}
        /\ \A k \in DOMAIN result.by_symbol :
              result.by_symbol[k]
                  = VolumeOf(LAMBDA o : Counted(o) /\ SymbolOf(o) = k)
        /\ SumValues(result.by_symbol, DOMAIN result.by_symbol)
              = result.total_volume
                  - VolumeOf(LAMBDA o : Counted(o) /\ SymbolOf(o) = "")

\* C9 witness: a counted record without instrument beside one with a
\* lower-case symbol: by_symbol holds the one key and less than the total.
C9_Witness ==
    /\ result.returned
    /\ Len(raw_orders) = 2
    /\ Counted(raw_orders[1]) /\ raw_orders[1].symbol = "btcusdt"
    /\ Counted(raw_orders[2]) /\ SymbolOf(raw_orders[2]) = ""
    /\ DOMAIN result.by_symbol = {"btcusdt"}
    /\ result.by_symbol["btcusdt"] = 6
    /\ result.total_volume = 16

\* C10 (as stated): the first of source, order_source, origin that is
\* present with a non-null value alone determines the origin, programmatic
\* for an API token and manual for a manual token; the fields after it are
\* not consulted; a record with none of the three is programmatic.
C10_Original ==
    probe_out.applied =>
        LET present == {k \in 1..Len(SOURCE_KEYS) : probe[SOURCE_KEYS[k]] # None}
        IN IF present = {} THEN probe_out.value
           ELSE LET k == CHOOSE j \in present : \A i \in present : j <= i
                    s == Upper(probe[SOURCE_KEYS[k]])
                IN /\ s \in ApiTokens => probe_out.value
                   /\ s \in ManualTokens => ~probe_out.value
                   /\ \A q \in OriginProbes :
                         (\A j \in 1..k : q[SOURCE_KEYS[j]] = probe[SOURCE_KEYS[j]])
                             => is_api_sourced(q) = probe_out.value

\* C10 (amended): the first of source, order_source, origin that holds a
\* recognised token alone determines the origin, programmatic for
\* API/1/TRUE and manual for WEB/IOS/ANDROID/MANUAL/0/FALSE in any case; a
\* field that is absent, null or holds any other value is passed over and
\* the next one consulted; a record with no recognised token in any of the
\* three is programmatic.
C10_FirstRecognised ==
    probe_out.applied => (probe_out.value <=> Programmatic(probe))

\* C10 witness: source holds an unrecognised value, order_source says
\* MANUAL, and the record is classified manual.
C10_Witness ==
    /\ probe_out.applied
    /\ probe.source = "BOT" /\ probe.order_source = "MANUAL"
    /\ probe.origin = "API"
    /\ ~probe_out.value

\* C11: a calculator constructed with any integer tier is constructed without
\* failure and its calculate never fails on the tier; the fee_rate_pct of every
\* report is the rate of tier 6 when the requested tier is above 6, the rate of
\* tier 0 when it is below 0, the rate of the tier itself otherwise, and so
\* one of the seven rates of the table.
C11_TierClamped ==
    /\ ~config.raised
    /\ error # "ValueError"
    /\ result.returned =>
         /\ result.fee_rate_pct =
              FEE_RATES[IF config.requested > 6 THEN 7
                        ELSE IF config.requested < 0 THEN 1
                        ELSE config.requested + 1]
         /\ \E i \in 1..7 : result.fee_rate_pct = FEE_RATES[i]

\* Reports were returned for a tier far above the table (at tier 6's rate).
C11_Witness ==
    /\ result.returned
    /\ config.requested > 7
    /\ result.fee_rate_pct = 30

\* C12: get_fee_rate called with a tier outside 0..6 returns the rate of
\* tier 0 (0.05) as a value and raises nothing.
C12_LookupFallsBack ==
    (probe_out.applied /\ probe.tier \notin 0..6) =>
        /\ ~probe_out.value.raised
        /\ probe_out.value.rate = FEE_RATES[1]

\* What the claim asks of a fee record: when a bound was supplied its
\* created_at denotes an instant and that instant lies inside the bounds.
FeeCounted(f) ==
    IF Supplied(args.since) \/ Supplied(args.until)
    THEN Parseable(f.created_at) /\ InWindow(f.created_at)
    ELSE TRUE

\* The fee records of the feed that satisfy Keep, their amounts and number.
FeeAmounts(Keep(_)) ==
    [i \in 1..Len(client.feed.fees) |->
        IF Keep(client.feed.fees[i]) THEN FloatOf(client.feed.fees[i].fee_amount)
        ELSE 0]

FeeNumber(Keep(_)) ==
    Cardinality({i \in 1..Len(client.feed.fees) : Keep(client.feed.fees[i])})

\* Every fee record of the feed has an amount that is a number.
NumericFeed ==
    \A i \in 1..Len(client.feed.fees) : IsFloat(client.feed.fees[i].fee_amount)

\* C13: over a fee history of numeric amounts that was fetched without
\* failure, a fee record is counted iff its created_at lies within
\* [since, until], and a record whose created_at cannot be parsed is left out
\* whenever the caller set a bound and counted when no bound was set;
\* actual_fees is the sum of fee_amount over the counted records and
\* actual_fee_count is their number.
C13_FeeWindow ==
    (result.returned /\ result.has_actual_fees /\ client.feed.raises = None
        /\ NumericFeed) =>
        /\ result.actual_fees =
             SumSeq(FeeAmounts(FeeCounted), 1, Len(client.feed.fees))
        /\ result.actual_fee_count = FeeNumber(FeeCounted)

\* C14: a calculate call made after an earlier one on the same calculator,
\* with the same arguments and against a source serving the same data, asks
\* for order history from page 1 on, and the report it returns equals the
\* report the earlier call returned.
C14_NoStateCarried ==
    /\ (Len(reports) >= 1 /\ pc \notin {"idle", "done", "failed"}) =>
         /\ Len(calls) >= 1 => calls[1] = OrdersCall(1)
         /\ pc = "fetch" => page = Len(calls) + 1
    /\ \A i, j \in 1..Len(reports) : reports[i] = reports[j]

\* Two calls have returned reports that count orders fetched over two pages.
C14_Witness ==
    /\ Len(reports) = 2
    /\ reports[1].returned /\ reports[2].returned
    /\ reports[2].order_count > per_page
    /\ Len(calls) >= 2

\* The four envelope shapes the claim lists: a bare list, an object with an
\* items list (and no data key), an object whose data is a list, an object
\* whose data is an object with an items list.
ListedShapes == {"list", "items", "data_list", "data_items"}

\* One page request that did not raise, when exactly the envelopes in shapes
\* carry their entries and every other shape is an empty page: the dict
\* entries of the page are appended to out in their order and the others
\* dropped; the loop goes on only after a page that carried entries, and
\* what the fetcher returns is out cut to the cap.
EnvelopeStep(shapes) ==
    (pc = "fetch" /\ ~PageRaises(page)) =>
        LET d == SourcePage(client, page)
            es == IF d.shape \in shapes THEN Expand(d.runs) ELSE <<>>
            grown == out \o SelectSeq(es, IsDict)
        IN IF pc' = "fetch"
           THEN out' = grown /\ es # <<>>
           ELSE /\ pc' = "aggregate"
                /\ raw_orders' =
                     IF args.limit > 0 /\ Len(grown) >= args.limit
                     THEN SubSeq(grown, 1, args.limit) ELSE grown

\* C15 (as stated): the four listed envelope shapes give the same list of
\* entries, of which the dict entries are appended in order and the others
\* discarded; every other shape is an empty page.
C15_Original == [][EnvelopeStep(ListedShapes)]_vars

\* C15 (amended): the four listed envelope shapes, and an object whose data
\* is an object with a data list and no items key, give the same list of
\* entries, of which the dict entries are appended in order and the others
\* discarded; every other shape is an empty page.
C15_Envelopes == [][EnvelopeStep(ListedShapes \cup {"data_data"})]_vars

\* A page in the data-in-data envelope with a non-dict entry among its
\* entries was fetched: its dict entries are what calculate received.
C15_Witness ==
    /\ pc = "done"
    /\ SourcePage(client, 1).shape = "data_data"
    /\ Len(raw_orders) = 2
    /\ EntryCount(1) = 4

\* Every filter of calculate but the time filter, and a positive notional.
CountedButForTime(o) ==
    PassesInstrument(o) /\ IsFilled(o) /\ PassesOrigin(o) /\ Notional(o) > 0

\* The instant of created_at is not before that of since and not after that
\* of until, for each of the two bounds that denotes an instant; instants are
\* taken after normalization (a value without offset is IST wall time).
WithinBounds(o) ==
    /\ Effective(args.since) => Instant(args.since) <= Instant(o.created_at)
    /\ Effective(args.until) => Instant(o.created_at) <= Instant(args.until)

\* C16: over fetched records whose created_at parses, a record passes the
\* time filter iff since <= created_at <= until, both ends included, for each
\* bound given, compared as instants: the report counts exactly the records
\* within the bounds among those that pass the other filters.
C16_InclusiveBounds ==
    (result.returned
        /\ \A i \in 1..Len(raw_orders) : Parseable(raw_orders[i].created_at)) =>
        LET Keep(o) == CountedButForTime(o) /\ WithinBounds(o)
        IN /\ result.order_count = NumberOf(Keep)
           /\ result.total_volume = VolumeOf(Keep)

\* A record stamped 05:30 UTC, the very instant of the bound until = 11:00
\* IST, with since = 10:00 IST, was counted.
C16_Witness ==
    /\ result.returned
    /\ args.since = IsoNaive(600) /\ args.until = IsoNaive(660)
    /\ Len(raw_orders) = 1
    /\ raw_orders[1].created_at = IsoAware(330, 0)
    /\ result.order_count = 1

====
